---- MODULE Spec2Model ----
(***************************************************************************)
(* leptos_config: resolution of LeptosOptions from a Cargo.toml text, from *)
(* the process environment, and the Env / ReloadWSProtocol conversions.    *)
(*                                                                         *)
(* Representation.  A Rust string is a sequence of atoms; an atom is a     *)
(* TLA+ string standing for one character ("d", "3", ".", "\n") or for a   *)
(* run of characters that no operation of the crate looks into ("pkg",     *)
(* "[package", "127.0.0.1").  A document text is a sequence of units; a    *)
(* unit is a record [k, v]: k = <<>> for raw text v, and k = the words of  *)
(* a key (output-name is <<"output", "name">>) for the text `k = v` of a   *)
(* TOML key/value pair.  Offsets into a text count units.                  *)
(***************************************************************************)
EXTENDS Integers, Sequences, FiniteSets, TLC

VARIABLES pc, build, text, environ, input, start, metadata_name, toml,
          result, lossy, stderr

vars == <<pc, build, text, environ, input, start, metadata_name, toml,
          result, lossy, stderr>>

(***************************************************************************)
(* Results: Result<T, LeptosConfigError>.  line is the 1-based line a      *)
(* parser error is reported at (0 when the error carries no line).         *)
(***************************************************************************)
Ok(v) == [tag |-> "Ok", val |-> <<v>>, err |-> "", line |-> 0]

Err(kind) == [tag |-> "Err", val |-> <<>>, err |-> kind, line |-> 0]

ErrAt(kind, ln) == [tag |-> "Err", val |-> <<>>, err |-> kind, line |-> ln]

NoResult == [tag |-> "None", val |-> <<>>, err |-> "", line |-> 0]

IsOk(r) == r.tag = "Ok"

IsErr(r) == r.tag = "Err"

Unwrap(r) == r.val[1]

(***************************************************************************)
(* Characters.                                                             *)
(***************************************************************************)
Digits == <<"0", "1", "2", "3", "4", "5", "6", "7", "8", "9">>

DigitSet == {Digits[i] : i \in 1..Len(Digits)}

DigitValue(c) == CHOOSE i \in 0..9 : Digits[i + 1] = c

\* The letters, and the words of the environment keys, in their two cases.
LowerLetters ==
  <<"a", "c", "d", "e", "g", "i", "l", "m", "n", "o", "p", "r", "s", "t",
    "u", "v", "w", "x">>

UpperLetters ==
  <<"A", "C", "D", "E", "G", "I", "L", "M", "N", "O", "P", "R", "S", "T",
    "U", "V", "W", "X">>

LowerWords ==
  <<"output", "name", "site", "root", "pkg", "dir", "env", "addr", "reload",
    "port", "external", "ws", "protocol", "not", "found", "path", "hash",
    "file", "files">>

UpperWords ==
  <<"OUTPUT", "NAME", "SITE", "ROOT", "PKG", "DIR", "ENV", "ADDR", "RELOAD",
    "PORT", "EXTERNAL", "WS", "PROTOCOL", "NOT", "FOUND", "PATH", "HASH",
    "FILE", "FILES">>

LowerCase == LowerLetters \o LowerWords

UpperCase == UpperLetters \o UpperWords

LetterSet ==
  {LowerLetters[i] : i \in 1..Len(LowerLetters)}
    \cup {UpperLetters[i] : i \in 1..Len(UpperLetters)}

LowerAtom(a) ==
  IF \E i \in 1..Len(UpperCase) : UpperCase[i] = a
    THEN LowerCase[CHOOSE i \in 1..Len(UpperCase) : UpperCase[i] = a]
    ELSE a

UpperAtom(a) ==
  IF \E i \in 1..Len(LowerCase) : LowerCase[i] = a
    THEN UpperCase[CHOOSE i \in 1..Len(LowerCase) : LowerCase[i] = a]
    ELSE a

\* str::to_lowercase
to_lowercase(s) == [i \in 1..Len(s) |-> LowerAtom(s[i])]

\* str::replace('-', "_")
replace_dash(s) == [i \in 1..Len(s) |-> IF s[i] = "-" THEN "_" ELSE s[i]]

(***************************************************************************)
(* Words of the two tag vocabularies.                                      *)
(***************************************************************************)
W_dev == <<"d", "e", "v">>

W_development == <<"d", "e", "v", "e", "l", "o", "p", "m", "e", "n", "t">>

W_prod == <<"p", "r", "o", "d">>

W_production == <<"p", "r", "o", "d", "u", "c", "t", "i", "o", "n">>

W_staging == <<"s", "t", "a", "g", "i", "n", "g">>

W_ws == <<"w", "s">>

W_wss == <<"w", "s", "s">>

DEV == <<"D", "E", "V">>

PROD == <<"P", "R", "O", "D">>

WS == <<"W", "S">>

WSS == <<"W", "S", "S">>

\* the input is matched as it is, without lowercasing it first
env_from_str_case_sensitive(s) ==
  IF s \in {W_dev, W_development} THEN Ok(DEV)
  ELSE IF s \in {W_prod, W_production} THEN Ok(PROD)
  ELSE Err("EnvVarError")

env_from_str(s) ==
  LET sanitized == to_lowercase(s)
  IN  IF sanitized \in {W_dev, W_development} THEN Ok(DEV)
      ELSE IF sanitized \in {W_prod, W_production} THEN Ok(PROD)
      ELSE Err("EnvVarError")

default_env == DEV

\* impl FromStr for Env: env_from_str(input).or_else(|_| Ok(Self::default()))
Env_from_str(s) ==
  IF IsOk(env_from_str(s)) THEN env_from_str(s) ELSE Ok(default_env)

\* impl TryFrom<String> for Env
Env_try_from(s) == env_from_str(s)

ws_from_str(s) ==
  LET sanitized == to_lowercase(s)
  IN  IF sanitized \in {W_ws, WS} THEN Ok(WS)
      ELSE IF sanitized \in {W_wss, WSS} THEN Ok(WSS)
      ELSE Err("EnvVarError")

default_ws == WS

(***************************************************************************)
(* Scalar parsing: str::parse::<u32>, ::<bool>, ::<SocketAddr>.  A parsed  *)
(* integer is its canonical digit string, so that the full u32 range is    *)
(* kept without arithmetic on it.                                          *)
(***************************************************************************)
U32_MAX == <<"4", "2", "9", "4", "9", "6", "7", "2", "9", "5">>

U16_MAX == <<"6", "5", "5", "3", "5">>

AllDigits(s) == \A i \in 1..Len(s) : s[i] \in DigitSet

RECURSIVE StripZeros(_)
StripZeros(s) ==
  IF Len(s) > 1 /\ s[1] = "0" THEN StripZeros(Tail(s)) ELSE s

\* a <= b for digit strings of one length
LexLeq(a, b) ==
  \/ a = b
  \/ \E i \in 1..Len(a) :
       /\ DigitValue(a[i]) < DigitValue(b[i])
       /\ \A j \in 1..(i - 1) : a[j] = b[j]

FitsIn(s, max) ==
  \/ Len(s) < Len(max)
  \/ Len(s) = Len(max) /\ LexLeq(s, max)

parse_digits(d, max) ==
  IF d = <<>> \/ ~AllDigits(d) \/ ~FitsIn(StripZeros(d), max)
    THEN Err("ParseIntError")
    ELSE Ok(StripZeros(d))

\* a malformed number is read as 3001 instead of being refused
parse_u32_or_default(s) ==
  LET d == IF Len(s) > 0 /\ s[1] = "+" THEN Tail(s) ELSE s
  IN  IF IsOk(parse_digits(d, U32_MAX)) THEN parse_digits(d, U32_MAX)
      ELSE Ok(<<"3", "0", "0", "1">>)

parse_u32(s) ==
  LET d == IF Len(s) > 0 /\ s[1] = "+" THEN Tail(s) ELSE s
  IN  parse_digits(d, U32_MAX)

parse_bool(s) ==
  IF s = <<"true">> THEN Ok(TRUE)
  ELSE IF s = <<"false">> THEN Ok(FALSE)
  ELSE Err("ParseBoolError")

Ipv4Atoms == {"127.0.0.1", "1.2.3.4", "9.9.9.9"}

parse_socket_addr(s) ==
  IF /\ Len(s) >= 3
     /\ s[1] \in Ipv4Atoms
     /\ s[2] = ":"
     /\ IsOk(parse_digits(SubSeq(s, 3, Len(s)), U16_MAX))
    THEN Ok([ip |-> s[1],
             port |-> Unwrap(parse_digits(SubSeq(s, 3, Len(s)), U16_MAX))])
    ELSE Err("AddrParseError")

(***************************************************************************)
(* The defaults of LeptosOptions (its builder and serde defaults).         *)
(***************************************************************************)
default_output_name(b) == replace_dash(b.CARGO_CRATE_NAME)

default_site_root == <<".">>

default_site_pkg_dir == <<"pkg">>

default_site_addr == [ip |-> "127.0.0.1", port |-> <<"3", "0", "0", "0">>]

default_reload_port == <<"3", "0", "0", "1">>

default_not_found_path == <<"/404">>

default_hash_file_name == <<"hash.txt">>

default_hash_files == FALSE

\* impl Default for LeptosOptions: LeptosOptions::builder().build()
LeptosOptions_default(b) ==
  [output_name |-> default_output_name(b),
   site_root |-> default_site_root,
   site_pkg_dir |-> default_site_pkg_dir,
   env |-> default_env,
   site_addr |-> default_site_addr,
   reload_port |-> default_reload_port,
   reload_external_port |-> <<>>,
   reload_ws_protocol |-> default_ws,
   not_found_path |-> default_not_found_path,
   hash_file |-> default_hash_file_name,
   hash_files |-> default_hash_files]

(***************************************************************************)
(* The process environment: a function from the names set (the words after *)
(* the LEPTOS_ prefix) to their values.  NOT_UNICODE is a value            *)
(* std::env::var refuses with VarError::NotUnicode.                        *)
(***************************************************************************)
NOT_UNICODE == <<"<not-unicode>">>

K_OUTPUT_NAME == <<"OUTPUT", "NAME">>

K_SITE_ROOT == <<"SITE", "ROOT">>

K_SITE_PKG_DIR == <<"SITE", "PKG", "DIR">>

K_ENV == <<"ENV">>

K_SITE_ADDR == <<"SITE", "ADDR">>

K_RELOAD_PORT == <<"RELOAD", "PORT">>

K_RELOAD_EXTERNAL_PORT == <<"RELOAD", "EXTERNAL", "PORT">>

K_RELOAD_WS_PROTOCOL == <<"RELOAD", "WS", "PROTOCOL">>

K_NOT_FOUND_PATH == <<"NOT", "FOUND", "PATH">>

K_HASH_FILE_NAME == <<"HASH", "FILE", "NAME">>

K_HASH_FILES == <<"HASH", "FILES">>

env_wo_default(e, key) ==
  IF key \notin DOMAIN e THEN Ok(<<>>)
  ELSE IF e[key] = NOT_UNICODE THEN Err("EnvVarError")
  ELSE Ok(<<e[key]>>)

env_w_default(e, key, default) ==
  IF key \notin DOMAIN e THEN Ok(default)
  ELSE IF e[key] = NOT_UNICODE THEN Err("EnvVarError")
  ELSE Ok(e[key])

\* the value of an Ok, the empty string of an Err
Payload(r) == IF IsOk(r) THEN r.val[1] ELSE <<>>

\* `r?` followed by the conversion of its value, whose result is next
AndThen(r, next) == IF IsOk(r) THEN next ELSE r

\* the first Err of a sequence of results, in evaluation order
FirstErr(rs) ==
  LET bad == {i \in 1..Len(rs) : IsErr(rs[i])}
  IN  rs[CHOOSE i \in bad : \A j \in bad : i <= j]

\* std::option_env!("LEPTOS_OUTPUT_NAME").unwrap_or_default()
option_env_output_name(b) ==
  IF b.LEPTOS_OUTPUT_NAME = <<>> THEN <<>> ELSE b.LEPTOS_OUTPUT_NAME[1]

SomeU32(s) == IF IsOk(parse_u32(s)) THEN Ok(<<Unwrap(parse_u32(s))>>) ELSE parse_u32(s)

reload_external_port_from(opt) ==
  IF opt = <<>> THEN Ok(<<>>) ELSE SomeU32(opt[1])

\* LeptosOptions::try_from_env, its fields in evaluation order
try_from_env_fields(e, b) ==
  LET r_env == env_w_default(e, K_ENV, DEV)
      r_site_addr ==
        env_w_default(e, K_SITE_ADDR, <<"127.0.0.1", ":", "3", "0", "0", "0">>)
      r_reload_port == env_w_default(e, K_RELOAD_PORT, <<"3", "0", "0", "1">>)
      r_external == env_wo_default(e, K_RELOAD_EXTERNAL_PORT)
      r_ws == env_w_default(e, K_RELOAD_WS_PROTOCOL, W_ws)
      r_hash_files == env_w_default(e, K_HASH_FILES, <<"false">>)
  IN  <<env_w_default(e, K_OUTPUT_NAME, option_env_output_name(b)),
        env_w_default(e, K_SITE_ROOT, <<"target/site">>),
        env_w_default(e, K_SITE_PKG_DIR, <<"pkg">>),
        AndThen(r_env, env_from_str(Payload(r_env))),
        AndThen(r_site_addr, parse_socket_addr(Payload(r_site_addr))),
        AndThen(r_reload_port, parse_u32(Payload(r_reload_port))),
        AndThen(r_external, reload_external_port_from(Payload(r_external))),
        AndThen(r_ws, ws_from_str(Payload(r_ws))),
        env_w_default(e, K_NOT_FOUND_PATH, <<"/404">>),
        env_w_default(e, K_HASH_FILE_NAME, <<"hash.txt">>),
        AndThen(r_hash_files, parse_bool(Payload(r_hash_files)))>>

try_from_env(e, b) ==
  LET f == try_from_env_fields(e, b)
  IN  IF \E i \in 1..Len(f) : IsErr(f[i]) THEN FirstErr(f)
      ELSE Ok([output_name |-> Unwrap(f[1]),
               site_root |-> Unwrap(f[2]),
               site_pkg_dir |-> Unwrap(f[3]),
               env |-> Unwrap(f[4]),
               site_addr |-> Unwrap(f[5]),
               reload_port |-> Unwrap(f[6]),
               reload_external_port |-> Unwrap(f[7]),
               reload_ws_protocol |-> Unwrap(f[8]),
               not_found_path |-> Unwrap(f[9]),
               hash_file |-> Unwrap(f[10]),
               hash_files |-> Unwrap(f[11])])

\* the diagnostic try_from_env prints when output_name is empty
try_from_env_warns(e, b) ==
  LET r == env_w_default(e, K_OUTPUT_NAME, option_env_output_name(b))
  IN  IsOk(r) /\ Unwrap(r) = <<>>

(***************************************************************************)
(* Inputs.                                                                 *)
(***************************************************************************)
MaxEnvVars == 2

MaxTagLen == 3

\* what the crate is compiled with: env!("CARGO_CRATE_NAME") and
\* option_env!("LEPTOS_OUTPUT_NAME")
Builds ==
  {[CARGO_CRATE_NAME |-> <<"leptos", "_", "config">>, LEPTOS_OUTPUT_NAME |-> o] :
     o \in {<<>>, << <<"app">> >>}}

EnvKeys ==
  {K_OUTPUT_NAME, K_SITE_ROOT, K_SITE_PKG_DIR, K_ENV, K_SITE_ADDR,
   K_RELOAD_PORT, K_RELOAD_EXTERNAL_PORT, K_RELOAD_WS_PROTOCOL,
   K_NOT_FOUND_PATH, K_HASH_FILE_NAME, K_HASH_FILES}

\* well-formed values of each variable, as try_from_env reads them
GoodValues(k) ==
  CASE k = K_OUTPUT_NAME -> {<<"app">>, <<>>}
    [] k = K_SITE_ROOT -> {<<"site">>}
    [] k = K_SITE_PKG_DIR -> {<<"assets">>}
    [] k = K_ENV -> {W_prod, <<"P", "r", "o", "d">>, W_development}
    [] k = K_SITE_ADDR -> {<<"1.2.3.4", ":", "9", "0", "0", "0">>}
    [] k = K_RELOAD_PORT ->
         {<<"8", "0", "8", "0">>, <<"+", "0", "5">>, U32_MAX}
    [] k = K_RELOAD_EXTERNAL_PORT -> {<<"4", "4", "3">>}
    [] k = K_RELOAD_WS_PROTOCOL -> {W_wss, <<"W", "s">>}
    [] k = K_NOT_FOUND_PATH -> {<<"/nf">>}
    [] k = K_HASH_FILE_NAME -> {<<"h.txt">>}
    [] k = K_HASH_FILES -> {<<"true">>, <<"false">>}

\* malformed values of the typed variables
BadValues(k) ==
  CASE k = K_ENV -> {W_staging, <<>>}
    [] k = K_SITE_ADDR ->
         {<<"localhost">>, <<"1.2.3.4">>,
          <<"1.2.3.4", ":", "6", "5", "5", "3", "6">>,
          <<"1.2.3.4", ":">>}
    [] k = K_RELOAD_PORT ->
         {<<"a", "b">>, <<"-", "1">>, <<>>,
          <<"4", "2", "9", "4", "9", "6", "7", "2", "9", "6">>}
    [] k = K_RELOAD_EXTERNAL_PORT -> {<<"x">>, <<"+">>}
    [] k = K_RELOAD_WS_PROTOCOL -> {<<"h", "t", "t", "p">>}
    [] k = K_HASH_FILES -> {<<"yes">>, <<"TRUE">>, <<"1">>}
    [] OTHER -> {}

EnvValues(k) == GoodValues(k) \cup BadValues(k) \cup {NOT_UNICODE}

\* the functions that give at most n of the keys one of their values
RECURSIVE Maps(_, _)
Maps(values, n) ==
  IF n = 0 THEN {<<>>}
  ELSE Maps(values, n - 1) \cup
       UNION {{e @@ (k :> v) : v \in values[k]} :
                <<e, k>> \in Maps(values, n - 1) \X DOMAIN values}

\* the environments that set at most n of the variables
Envs(n) == Maps([k \in EnvKeys |-> EnvValues(k)], n)

\* every way of writing the word w in upper and lower case letters
Cases(w) ==
  {[i \in 1..Len(w) |-> IF up[i] THEN UpperAtom(w[i]) ELSE w[i]] :
     up \in [1..Len(w) -> BOOLEAN]}

RECURSIVE StringsUpTo(_, _)
StringsUpTo(alphabet, n) ==
  IF n = 0 THEN {<<>>}
  ELSE StringsUpTo(alphabet, n - 1) \cup
       {Append(s, c) : s \in StringsUpTo(alphabet, n - 1), c \in alphabet}

TagInputs ==
  Cases(W_dev) \cup Cases(W_development) \cup Cases(W_prod)
    \cup Cases(W_production) \cup Cases(W_staging)
    \cup StringsUpTo({"d", "e", "v", "D", "E", "V", "s"}, MaxTagLen)

\* nothing has been called yet
NoCall ==
  /\ start = 0
  /\ metadata_name = <<>>
  /\ toml = <<>>
  /\ result = NoResult
  /\ lossy = NoResult
  /\ stderr = <<>>

(***************************************************************************)
(* get_config_from_env                                                     *)
(***************************************************************************)
InitEnv ==
  /\ pc = "env"
  /\ build \in Builds
  /\ environ \in Envs(MaxEnvVars)
  /\ text = <<>>
  /\ input = <<>>
  /\ NoCall

get_config_from_env ==
  /\ pc = "env"
  /\ result' = try_from_env(environ, build)
  /\ stderr' = IF try_from_env_warns(environ, build)
                 THEN Append(stderr, "output_name is empty")
                 ELSE stderr
  /\ pc' = "done"
  /\ UNCHANGED <<build, text, environ, input, start, metadata_name, toml,
                 lossy>>

NextEnv == get_config_from_env

SpecEnv == InitEnv /\ [][NextEnv]_vars

(***************************************************************************)
(* The two conversions of a string into an Env                             *)
(***************************************************************************)
InitTag ==
  /\ pc = "tag"
  /\ build \in Builds
  /\ environ = <<>>
  /\ input \in TagInputs
  /\ text = <<>>
  /\ NoCall

\* Env::try_from(input)
TryFromString ==
  /\ pc = "tag"
  /\ result = NoResult
  /\ result' = Env_try_from(input)
  /\ UNCHANGED <<pc, build, text, environ, input, start, metadata_name, toml,
                 lossy, stderr>>

\* input.parse::<Env>()
FromStr ==
  /\ pc = "tag"
  /\ lossy = NoResult
  /\ lossy' = Env_from_str(input)
  /\ UNCHANGED <<pc, build, text, environ, input, start, metadata_name, toml,
                 result, stderr>>

NextTag == TryFromString \/ FromStr

SpecTag == InitTag /\ [][NextTag]_vars

(***************************************************************************)
(* Claims about get_config_from_env (checked under SpecEnv)                *)
(***************************************************************************)

\* C5 (as claimed): get_config_from_env with none of the eleven variables
\* set succeeds and returns the all-defaults LeptosOptions, field by field
\* (output_name = the crate name with dashes replaced, site_root = ".", ...).
C5_EnvDefaultsAreTheDefaults ==
  (pc = "done" /\ DOMAIN environ = {}) =>
    (IsOk(result) /\ Unwrap(result) = LeptosOptions_default(build))

TypedKeys ==
  {K_ENV, K_SITE_ADDR, K_RELOAD_PORT, K_RELOAD_EXTERNAL_PORT,
   K_RELOAD_WS_PROTOCOL, K_HASH_FILES}

\* C6: in get_config_from_env a typed variable that is present but malformed
\* makes the call return an error (never LeptosOptions with the field
\* defaulted), and no environment makes it return ConfigSectionNotFound.
C6_MalformedEnvIsAnError ==
  pc = "done" =>
    /\ \A k \in TypedKeys :
         (k \in DOMAIN environ /\ environ[k] \in BadValues(k)) =>
           IsErr(result)
    /\ result.err # "ConfigSectionNotFound"

C6_Witness ==
  /\ pc = "done"
  /\ DOMAIN environ = {K_RELOAD_PORT}
  /\ environ[K_RELOAD_PORT] = <<"a", "b">>
  /\ result = Err("ParseIntError")

(***************************************************************************)
(* Claims about the Env conversions (checked under SpecTag)                *)
(***************************************************************************)
DevAliases == Cases(W_dev) \cup Cases(W_development)

ProdAliases == Cases(W_prod) \cup Cases(W_production)

\* C7: an input that is, ignoring case, none of dev, development, prod,
\* production makes the strict conversion fail (the crate reports its
\* unsupported-environment error as EnvVarError) and the lossy one return
\* DEV; an alias in any letter case makes both return the same variant,
\* dev/development -> DEV and prod/production -> PROD.
C7_StrictVsLossy ==
  (result # NoResult /\ lossy # NoResult) =>
    IF input \in DevAliases THEN result = Ok(DEV) /\ lossy = Ok(DEV)
    ELSE IF input \in ProdAliases THEN result = Ok(PROD) /\ lossy = Ok(PROD)
    ELSE result = Err("EnvVarError") /\ lossy = Ok(DEV)

C7_Witness ==
  /\ input = W_staging
  /\ result = Err("EnvVarError")
  /\ lossy = Ok(DEV)

C7_WitnessMixedCase ==
  /\ input = <<"P", "r", "O", "d">>
  /\ result = Ok(PROD)
  /\ lossy = Ok(PROD)

(***************************************************************************)
(* Document texts                                                          *)
(***************************************************************************)
Raw(v) == [k |-> <<>>, v |-> v]

KV(k, v) == [k |-> k, v |-> v]

NL == Raw(<<"\n">>)

HASH == Raw(<<"#">>)

\* "[package.metadata.leptos]" and "[[workspace.metadata.leptos]]"
SINGULAR == <<"[package", ".", "metadata", ".", "leptos]">>

PLURAL == <<"[[workspace", ".", "metadata", ".", "leptos]]">>

\* the atoms that are one character other than a newline
OneChar == {".", "-", "#", "?", ":", "+", "_"} \cup DigitSet \cup LetterSet

\* one element of a regex pattern against one atom: `.` is any character
\* but a newline, every other element of the two patterns is literal
regex_atom_matches(p, a) == IF p = "." THEN a \in OneChar ELSE a = p

\* (?m)^pattern at unit i of txt
regex_matches_at(pattern, txt, i) ==
  /\ i = 1 \/ txt[i - 1] = NL
  /\ txt[i].k = <<>>
  /\ Len(txt[i].v) >= Len(pattern)
  /\ \A j \in 1..Len(pattern) : regex_atom_matches(pattern[j], txt[i].v[j])

\* Regex::find: the offset of the leftmost match, <<>> for None
regex_find(pattern, txt) ==
  LET hits == {i \in 1..Len(txt) : regex_matches_at(pattern, txt, i)}
  IN  IF hits = {} THEN <<>>
      ELSE <<(CHOOSE i \in hits : \A j \in hits : i <= j) - 1>>

\* lines 311-325: the singular pattern first, then the plural one
locate(txt) ==
  IF regex_find(SINGULAR, txt) # <<>>
    THEN [found |-> TRUE, metadata_name |-> SINGULAR,
          start |-> regex_find(SINGULAR, txt)[1]]
  ELSE IF regex_find(PLURAL, txt) # <<>>
    THEN [found |-> TRUE, metadata_name |-> PLURAL,
          start |-> regex_find(PLURAL, txt)[1]]
  ELSE [found |-> FALSE, metadata_name |-> <<>>, start |-> 0]

\* s.matches('\n').count() of a string and of a text
RECURSIVE count_newlines_in(_)
count_newlines_in(s) ==
  IF s = <<>> THEN 0
  ELSE (IF s[1] = "\n" THEN 1 ELSE 0) + count_newlines_in(Tail(s))

RECURSIVE count_newlines(_)
count_newlines(txt) ==
  IF txt = <<>> THEN 0
  ELSE count_newlines_in(txt[1].v) + count_newlines(Tail(txt))

\* "\n".repeat(n)
repeat_newline(n) == [i \in 1..n |-> NL]

\* str::replace(pat, "") of a string: every non-overlapping occurrence,
\* left to right
RECURSIVE remove_all(_, _)
remove_all(s, pat) ==
  IF Len(s) < Len(pat) THEN s
  ELSE IF SubSeq(s, 1, Len(pat)) = pat
    THEN remove_all(SubSeq(s, Len(pat) + 1, Len(s)), pat)
  ELSE <<s[1]>> \o remove_all(Tail(s), pat)

\* only the first occurrence is removed
RECURSIVE remove_first(_, _)
remove_first(s, pat) ==
  IF Len(s) < Len(pat) THEN s
  ELSE IF SubSeq(s, 1, Len(pat)) = pat
    THEN SubSeq(s, Len(pat) + 1, Len(s))
  ELSE <<s[1]>> \o remove_first(Tail(s), pat)

\* only the leftmost occurrence in the text is removed
RECURSIVE replace_anchor_only(_, _)
replace_anchor_only(txt, pat) ==
  IF txt = <<>> THEN <<>>
  ELSE IF remove_first(txt[1].v, pat) # txt[1].v
    THEN LET u == [txt[1] EXCEPT !.v = remove_first(@, pat)]
         IN  (IF u.k = <<>> /\ u.v = <<>> THEN <<>> ELSE <<u>>) \o Tail(txt)
  ELSE <<txt[1]>> \o replace_anchor_only(Tail(txt), pat)

\* str::replace(pat, "") of a text; a raw unit left without text is gone
RECURSIVE replace_with_empty(_, _)
replace_with_empty(txt, pat) ==
  IF txt = <<>> THEN <<>>
  ELSE LET u == [txt[1] EXCEPT !.v = remove_all(@, pat)]
       IN  (IF u.k = <<>> /\ u.v = <<>> THEN <<>> ELSE <<u>>)
             \o replace_with_empty(Tail(txt), pat)

\* lines 328-331: the text handed to the parser
extract_without_padding(txt, loc) ==
  replace_with_empty(SubSeq(txt, loc.start + 1, Len(txt)), loc.metadata_name)

extract(txt, loc) ==
  LET newlines == count_newlines(SubSeq(txt, 1, loc.start))
      input_ == repeat_newline(newlines) \o SubSeq(txt, loc.start + 1, Len(txt))
  IN  replace_with_empty(input_, loc.metadata_name)

(***************************************************************************)
(* config::File::from_str(&toml, FileFormat::Toml): the root table of the  *)
(* text, or the line of its first syntax error.                            *)
(***************************************************************************)
RECURSIVE split_lines(_)
split_lines(txt) ==
  IF \A i \in 1..Len(txt) : txt[i] # NL THEN <<txt>>
  ELSE LET i == CHOOSE i \in 1..Len(txt) :
                  txt[i] = NL /\ \A j \in 1..(i - 1) : txt[j] # NL
       IN  <<SubSeq(txt, 1, i - 1)>> \o split_lines(SubSeq(txt, i + 1, Len(txt)))

\* a line without its comment
strip_comment(ln) ==
  IF \A i \in 1..Len(ln) : ln[i] # HASH THEN ln
  ELSE SubSeq(ln, 1, (CHOOSE i \in 1..Len(ln) :
                        ln[i] = HASH /\ \A j \in 1..(i - 1) : ln[j] # HASH) - 1)

\* [a.b.c] and [[a.b.c]] with bare keys: a `-` is a key character
is_header(v) ==
  /\ Len(v) = Len(SINGULAR)
  /\ \/ v[1] = SINGULAR[1] /\ v[5] = SINGULAR[5]
     \/ v[1] = PLURAL[1] /\ v[5] = PLURAL[5]
  /\ v[2] \in {".", "-"}
  /\ v[3] = SINGULAR[3]
  /\ v[4] \in {".", "-"}

is_array_header(v) == is_header(v) /\ v[1] = PLURAL[1]

TomlStart ==
  [cur |-> <<>>, tables |-> {}, defined |-> {}, root |-> <<>>, bad |-> 0]

\* one line, at line number n, into the parser state st
toml_line(st, ln, n) ==
  LET body == strip_comment(ln)
  IN  IF st.bad # 0 \/ body = <<>> THEN st
      ELSE IF Len(body) # 1 THEN [st EXCEPT !.bad = n]
      ELSE IF body[1].k # <<>> THEN
        IF <<st.cur, body[1].k>> \in st.defined THEN [st EXCEPT !.bad = n]
        ELSE [st EXCEPT
                !.defined = @ \cup {<<st.cur, body[1].k>>},
                !.root = IF st.cur = <<>>
                           THEN (body[1].k :> body[1].v) @@ @
                           ELSE @]
      ELSE IF ~is_header(body[1].v) THEN [st EXCEPT !.bad = n]
      ELSE IF is_array_header(body[1].v) THEN
        [st EXCEPT !.cur = Append(body[1].v, ToString(n))]
      ELSE IF body[1].v \in st.tables THEN [st EXCEPT !.bad = n]
      ELSE [st EXCEPT !.cur = body[1].v, !.tables = @ \cup {body[1].v}]

RECURSIVE toml_lines(_, _, _)
toml_lines(st, lines, n) ==
  IF n > Len(lines) THEN st
  ELSE toml_lines(toml_line(st, lines[n], n), lines, n + 1)

toml_parse(txt) ==
  LET st == toml_lines(TomlStart, split_lines(txt), 1)
  IN  IF st.bad # 0 THEN ErrAt("ConfigError", st.bad) ELSE Ok(st.root)

(***************************************************************************)
(* config::Environment::with_prefix("LEPTOS").convert_case(Case::Kebab):   *)
(* LEPTOS_A_B becomes the key a-b.                                         *)
(***************************************************************************)
environment_source(e) ==
  LET keys == {to_lowercase(k) : k \in DOMAIN e}
  IN  [key \in keys |->
         e[CHOOSE k \in DOMAIN e : to_lowercase(k) = key]]

\* Config::builder().add_source(file).add_source(env).build()
merge(file, env) ==
  [key \in DOMAIN file \cup DOMAIN env |->
     IF key \in DOMAIN env THEN env[key] ELSE file[key]]

(***************************************************************************)
(* try_deserialize into LeptosOptions: #[serde(rename_all = "kebab-case")] *)
(***************************************************************************)
F_output_name == <<"output", "name">>

F_site_root == <<"site", "root">>

F_site_pkg_dir == <<"site", "pkg", "dir">>

F_env == <<"env">>

F_site_addr == <<"site", "addr">>

F_reload_port == <<"reload", "port">>

F_reload_external_port == <<"reload", "external", "port">>

F_reload_ws_protocol == <<"reload", "ws", "protocol">>

F_not_found_path == <<"not", "found", "path">>

F_hash_file == <<"hash", "file">>

F_hash_files == <<"hash", "files">>

ConfigError(r) == IF IsErr(r) THEN Err("ConfigError") ELSE r

de_string(s) == Ok(s)

de_u32(s) == ConfigError(parse_u32(s))

de_option_u32(s) == ConfigError(SomeU32(s))

de_socket_addr(s) == ConfigError(parse_socket_addr(s))

\* config's Value::into_bool
de_bool(s) ==
  IF Len(s) # 1 THEN Err("ConfigError")
  ELSE IF s[1] \in {"1", "true", "on", "yes"} THEN Ok(TRUE)
  ELSE IF s[1] \in {"0", "false", "off", "no"} THEN Ok(FALSE)
  ELSE Err("ConfigError")

\* the derived Deserialize of the two enums: the variant names
de_env(s) == IF s \in {DEV, PROD} THEN Ok(s) ELSE Err("ConfigError")

de_ws(s) == IF s \in {WS, WSS} THEN Ok(s) ELSE Err("ConfigError")

\* the text of key in the merged map, the empty string when it is absent
Lookup(m, key) == IF key \in DOMAIN m THEN m[key] ELSE <<>>

\* a field with #[serde(default ...)]; de is its value deserialized
de_field(m, key, de, default) ==
  IF key \in DOMAIN m THEN de ELSE Ok(default)

\* a field without: output_name
de_required(m, key, de) ==
  IF key \in DOMAIN m THEN de ELSE Err("ConfigError")

try_deserialize_fields(m) ==
  <<de_required(m, F_output_name, de_string(Lookup(m, F_output_name))),
    de_field(m, F_site_root, de_string(Lookup(m, F_site_root)),
             default_site_root),
    de_field(m, F_site_pkg_dir, de_string(Lookup(m, F_site_pkg_dir)),
             default_site_pkg_dir),
    de_field(m, F_env, de_env(Lookup(m, F_env)), default_env),
    de_field(m, F_site_addr, de_socket_addr(Lookup(m, F_site_addr)),
             default_site_addr),
    de_field(m, F_reload_port, de_u32(Lookup(m, F_reload_port)),
             default_reload_port),
    de_field(m, F_reload_external_port,
             de_option_u32(Lookup(m, F_reload_external_port)), <<>>),
    de_field(m, F_reload_ws_protocol, de_ws(Lookup(m, F_reload_ws_protocol)),
             default_ws),
    de_field(m, F_not_found_path, de_string(Lookup(m, F_not_found_path)),
             default_not_found_path),
    de_field(m, F_hash_file, de_string(Lookup(m, F_hash_file)),
             default_hash_file_name),
    de_field(m, F_hash_files, de_bool(Lookup(m, F_hash_files)),
             default_hash_files)>>

try_deserialize(m) ==
  LET f == try_deserialize_fields(m)
  IN  IF \E i \in 1..Len(f) : IsErr(f[i]) THEN Err("ConfigError")
      ELSE Ok([output_name |-> Unwrap(f[1]),
               site_root |-> Unwrap(f[2]),
               site_pkg_dir |-> Unwrap(f[3]),
               env |-> Unwrap(f[4]),
               site_addr |-> Unwrap(f[5]),
               reload_port |-> Unwrap(f[6]),
               reload_external_port |-> Unwrap(f[7]),
               reload_ws_protocol |-> Unwrap(f[8]),
               not_found_path |-> Unwrap(f[9]),
               hash_file |-> Unwrap(f[10]),
               hash_files |-> Unwrap(f[11])])

\* lines 332-346: parse, layer the environment on top, deserialize
settings_from(tml, e) ==
  LET file == toml_parse(tml)
  IN  IF IsErr(file) THEN file
      ELSE try_deserialize(merge(Unwrap(file), environment_source(e)))

config_from_str(txt, e) ==
  LET loc == locate(txt)
  IN  IF ~loc.found THEN Err("ConfigSectionNotFound")
      ELSE settings_from(extract(txt, loc), e)

(***************************************************************************)
(* get_config_from_str                                                     *)
(***************************************************************************)
get_config_from_str ==
  /\ pc = "str"
  /\ LET loc == locate(text)
     IN  /\ start' = loc.start
         /\ metadata_name' = loc.metadata_name
         /\ toml' = IF loc.found THEN extract(text, loc) ELSE <<>>
  /\ result' = config_from_str(text, environ)
  /\ pc' = "done"
  /\ UNCHANGED <<build, text, environ, input, lossy, stderr>>

(***************************************************************************)
(* Texts of a few lines, each of one of the shapes below                   *)
(***************************************************************************)
MaxLines == 3

\* "[package-metadata.leptos]" and "[[workspace-metadata.leptos]]"
SINGULAR_DASH == <<"[package", "-", "metadata", ".", "leptos]">>

PLURAL_DASH == <<"[[workspace", "-", "metadata", ".", "leptos]]">>

LineShapes ==
  {<<>>,
   <<Raw(SINGULAR)>>,
   <<Raw(PLURAL)>>,
   <<Raw(SINGULAR_DASH)>>,
   <<Raw(PLURAL_DASH)>>,
   <<HASH, Raw(SINGULAR)>>,
   <<HASH, Raw(PLURAL)>>,
   <<KV(F_output_name, <<"app">>)>>,
   <<KV(F_site_root, SINGULAR)>>,
   <<Raw(<<"?">>)>>}

RECURSIVE join_lines(_)
join_lines(ls) ==
  IF ls = <<>> THEN <<>>
  ELSE IF Len(ls) = 1 THEN ls[1]
  ELSE ls[1] \o <<NL>> \o join_lines(Tail(ls))

Texts == {join_lines(ls) : ls \in StringsUpTo(LineShapes, MaxLines)}

TextEnvs ==
  {<<>>, K_OUTPUT_NAME :> <<"app">>, K_SITE_ROOT :> <<"site">>}

InitText ==
  /\ pc = "str"
  /\ build \in {b \in Builds : b.LEPTOS_OUTPUT_NAME = <<>>}
  /\ text \in Texts
  /\ environ \in TextEnvs
  /\ input = <<>>
  /\ NoCall

NextText == get_config_from_str

SpecText == InitText /\ [][NextText]_vars

(***************************************************************************)
(* Texts of a marker line and a block that sets some of the fields, under  *)
(* environments that set some of the variables                             *)
(***************************************************************************)
MaxDocKeys == 2

MaxLayerEnvVars == 2

Fields ==
  <<F_output_name, F_site_root, F_site_pkg_dir, F_env, F_site_addr,
    F_reload_port, F_reload_external_port, F_reload_ws_protocol,
    F_not_found_path, F_hash_file, F_hash_files>>

FieldSet == {Fields[i] : i \in 1..Len(Fields)}

DocValues(f) ==
  CASE f = F_output_name -> {<<"doc_app">>}
    [] f = F_site_root -> {<<"docroot">>}
    [] f = F_site_pkg_dir -> {<<"docpkg">>}
    [] f = F_env -> {PROD, DEV}
    [] f = F_site_addr -> {<<"1.2.3.4", ":", "9", "0", "0", "0">>}
    [] f = F_reload_port -> {<<"8", "0", "8", "0">>}
    [] f = F_reload_external_port -> {<<"4", "4", "3">>}
    [] f = F_reload_ws_protocol -> {WSS}
    [] f = F_not_found_path -> {<<"/doc404">>}
    [] f = F_hash_file -> {<<"doc.txt">>}
    [] f = F_hash_files -> {<<"true">>}

K_HASH_FILE == <<"HASH", "FILE">>

LayerEnvKeys == EnvKeys \cup {K_HASH_FILE}

LayerEnvValues(k) ==
  CASE k = K_OUTPUT_NAME -> {<<"env_app">>}
    [] k = K_SITE_ROOT -> {<<"envroot">>}
    [] k = K_SITE_PKG_DIR -> {<<"envpkg">>}
    [] k = K_ENV -> {PROD, DEV}
    [] k = K_SITE_ADDR -> {<<"9.9.9.9", ":", "1", "1", "1", "1">>}
    [] k = K_RELOAD_PORT -> {<<"5", "0", "0", "1">>}
    [] k = K_RELOAD_EXTERNAL_PORT -> {<<"8", "4", "4", "3">>}
    [] k = K_RELOAD_WS_PROTOCOL -> {WSS, WS}
    [] k = K_NOT_FOUND_PATH -> {<<"/env404">>}
    [] k = K_HASH_FILE_NAME -> {<<"env.txt">>}
    [] k = K_HASH_FILE -> {<<"env2.txt">>}
    [] k = K_HASH_FILES -> {<<"true">>, <<"false">>}

\* the block `k = v` of the fields of m, one a line, in the order of Fields
RECURSIVE block(_, _)
block(m, i) ==
  IF i > Len(Fields) THEN <<>>
  ELSE (IF Fields[i] \in DOMAIN m
          THEN <<NL, KV(Fields[i], m[Fields[i]])>>
          ELSE <<>>) \o block(m, i + 1)

LayerTexts ==
  {<<Raw(marker)>> \o block(m, 1) :
     marker \in {SINGULAR, PLURAL}, m \in Maps([f \in FieldSet |-> DocValues(f)], MaxDocKeys)}

InitLayer ==
  /\ pc = "str"
  /\ build \in Builds
  /\ text \in LayerTexts
  /\ environ \in Maps([k \in LayerEnvKeys |-> LayerEnvValues(k)],
                     MaxLayerEnvVars)
  /\ input = <<>>
  /\ NoCall

NextLayer == get_config_from_str

SpecLayer == InitLayer /\ [][NextLayer]_vars

(***************************************************************************)
(* Claims about the section locator and the extractor (under SpecText)     *)
(***************************************************************************)
AtLineStart(txt, i) == i = 1 \/ txt[i - 1] = NL

\* the offsets at which the marker string m stands at the start of a line
Anchored(txt, m) ==
  {i - 1 : i \in {j \in 1..Len(txt) :
                    AtLineStart(txt, j) /\ txt[j] = Raw(m)}}

Least(S) == CHOOSE x \in S : \A y \in S : x <= y

Located == pc = "done" /\ metadata_name # <<>>

NewlinesBefore == count_newlines(SubSeq(text, 1, start))

\* C3 (as claimed): get_config_from_str fails with ConfigSectionNotFound if
\* and only if neither marker string stands at the start of a line of the
\* text.
C3_SectionNotFoundIffNoAnchoredMarker ==
  pc = "done" =>
    (result = Err("ConfigSectionNotFound")
       <=> (Anchored(text, SINGULAR) = {} /\ Anchored(text, PLURAL) = {}))

\* C9 (as claimed): with a line-anchored singular and a line-anchored plural
\* marker in the text the locator returns the offset of the first singular
\* marker and the singular marker as the one matched; the plural marker is
\* matched only when no line-anchored singular marker exists.
C9_SingularTakesPrecedence ==
  pc = "done" =>
    /\ (Anchored(text, SINGULAR) # {} /\ Anchored(text, PLURAL) # {}) =>
         (metadata_name = SINGULAR /\ start = Least(Anchored(text, SINGULAR)))
    /\ metadata_name = PLURAL => Anchored(text, SINGULAR) = {}

\* a line as the parser's line numbering sees it: its units without the
\* marker string m, whatever the values of its keys
Skeleton(ln, m) ==
  LET rest == SelectSeq(ln, LAMBDA u : u # Raw(m))
  IN  [i \in 1..Len(rest) |->
         IF rest[i].k = <<>> THEN rest[i] ELSE KV(rest[i].k, <<>>)]

RECURSIVE Kept(_, _, _)
Kept(s, pat, i) ==
  IF i > Len(s) THEN <<>>
  ELSE IF /\ i + Len(pat) - 1 <= Len(s)
          /\ \A j \in 1..Len(pat) : s[i + j - 1] = pat[j]
    THEN Kept(s, pat, i + Len(pat))
  ELSE <<s[i]>> \o Kept(s, pat, i + 1)

Deleted(txt, pat) ==
  SelectSeq([i \in 1..Len(txt) |-> [txt[i] EXCEPT !.v = Kept(@, pat, 1)]],
            LAMBDA u : ~(u.k = <<>> /\ u.v = <<>>))

SameResult(r1, r2) ==
  /\ r1.tag = r2.tag
  /\ r1.err = r2.err
  /\ r1.val = r2.val

\* C10: the text handed to the parser is N newlines followed by the text
\* from the matched offset with every occurrence of the matched marker
\* string deleted and everything else kept in order; the document before
\* the matched offset influences the result by its count of newlines only
\* (the document with N newlines in place of it resolves to the same).
C10_ExtractorContent ==
  Located =>
    /\ toml = repeat_newline(NewlinesBefore)
                \o Deleted(SubSeq(text, start + 1, Len(text)), metadata_name)
    /\ result =
         config_from_str(repeat_newline(NewlinesBefore)
                           \o SubSeq(text, start + 1, Len(text)), environ)

C10_Witness ==
  /\ Located
  /\ text = <<Raw(<<"?">>), NL, Raw(SINGULAR), NL, KV(F_site_root, SINGULAR)>>
  /\ environ = K_OUTPUT_NAME :> <<"app">>
  /\ toml = <<NL, NL, KV(F_site_root, <<>>)>>
  /\ IsOk(result)
  /\ Unwrap(result).site_root = <<>>

Contains(txt, m) ==
  \E i \in 1..Len(txt) : Kept(txt[i].v, m, 1) # txt[i].v

\* C8 (as claimed): in a text that contains the singular marker and no
\* plural marker, the plural marker in place of the singular one (same
\* position, same block, same environment) gives the same result.
C8_MarkerFormsInterchangeable ==
  (/\ Located
   /\ Anchored(text, SINGULAR) = {start}
   /\ regex_find(SINGULAR, text) = <<start>>
   /\ ~Contains(text, PLURAL)) =>
    SameResult(config_from_str([text EXCEPT ![start + 1] = Raw(PLURAL)],
                               environ),
               result)

(***************************************************************************)
(* Claims about the layers (under SpecLayer)                               *)
(***************************************************************************)
\* the variable the specification documents for each field, in the order
\* of Fields
DocumentedVars ==
  <<K_OUTPUT_NAME, K_SITE_ROOT, K_SITE_PKG_DIR, K_ENV, K_SITE_ADDR,
    K_RELOAD_PORT, K_RELOAD_EXTERNAL_PORT, K_RELOAD_WS_PROTOCOL,
    K_NOT_FOUND_PATH, K_HASH_FILE_NAME, K_HASH_FILES>>

FieldValue(o, i) ==
  CASE i = 1 -> o.output_name
    [] i = 2 -> o.site_root
    [] i = 3 -> o.site_pkg_dir
    [] i = 4 -> o.env
    [] i = 5 -> o.site_addr
    [] i = 6 -> o.reload_port
    [] i = 7 -> o.reload_external_port
    [] i = 8 -> o.reload_ws_protocol
    [] i = 9 -> o.not_found_path
    [] i = 10 -> o.hash_file
    [] i = 11 -> o.hash_files

\* the value of field i that the text s stands for
Typed(i, s) ==
  CASE i \in {1, 2, 3, 9, 10} -> s
    [] i \in {4, 8} -> s
    [] i = 5 -> Unwrap(parse_socket_addr(s))
    [] i = 6 -> Unwrap(parse_u32(s))
    [] i = 7 -> <<Unwrap(parse_u32(s))>>
    [] i = 11 -> (s = <<"true">>)

DocSets(f) == \E j \in 1..Len(text) : text[j].k = f

DocVal(f) == text[CHOOSE j \in 1..Len(text) : text[j].k = f].v

\* C1 (as claimed): for each of the eleven fields, the documented variable,
\* when set, gives the resolved field whatever the document says; else the
\* document value does, when the block sets the field; else the default.
C1_EnvOverDocOverDefault ==
  (pc = "done" /\ IsOk(result) /\ DOMAIN environ \subseteq EnvKeys) =>
    \A i \in 1..Len(Fields) :
      FieldValue(Unwrap(result), i) =
        IF DocumentedVars[i] \in DOMAIN environ
          THEN Typed(i, environ[DocumentedVars[i]])
        ELSE IF DocSets(Fields[i]) THEN Typed(i, DocVal(Fields[i]))
        ELSE FieldValue(LeptosOptions_default(build), i)

\* C2 (as claimed): a marker followed by a block that sets any subset of
\* the fields to valid values, with no variable set, resolves; every field
\* set has the block's value and every other field, output_name included,
\* its default.
C2_MissingFieldsDefault ==
  (pc = "done" /\ DOMAIN environ = {}) =>
    /\ IsOk(result)
    /\ \A i \in 1..Len(Fields) :
         FieldValue(Unwrap(result), i) =
           IF DocSets(Fields[i]) THEN Typed(i, DocVal(Fields[i]))
           ELSE FieldValue(LeptosOptions_default(build), i)

====
